---- MODULE Spec2Model ----
(***************************************************************************)
(* Model of main.py: EnvManager, YFinanceService (get_historical_data,     *)
(* calculate_adjusted_close, calculate_returns) and the __main__ driver.   *)
(*                                                                         *)
(* Numbers.  The pandas columns are float64.  A value is modelled as a     *)
(* pair <<n, d>>: for d > 0 the exact rational n/d in lowest terms, and    *)
(* for d = 0 one of the three IEEE specials  NaN = <<0,0>>,                *)
(* +inf = <<1,0>>, -inf = <<-1,0>>.  Rounding is not modelled; division by *)
(* zero, NaN propagation and dropna are.                                   *)
(*                                                                         *)
(* Series.  A pandas Series is a sequence of [date, val] records, in index *)
(* order; a table (DataFrame) is [cols, rows] where every row is a         *)
(* function from cols \cup {"Date"} to values.  Dates are 1..n, ascending. *)
(***************************************************************************)
EXTENDS Integers, Sequences, FiniteSets, TLC

\* Bounds of the model.
MaxLen == 3        \* rows of a provider table without an Adj Close column
MaxAdjLen == 2     \* rows of a provider table with an Adj Close column

----------------------------------------------------------------------------
\* float64 arithmetic (exact on finite values, IEEE on the specials)

NaN == <<0, 0>>
PosInf == <<1, 0>>
NegInf == <<-1, 0>>

Abs(n) == IF n < 0 THEN -n ELSE n
Sgn(n) == IF n < 0 THEN -1 ELSE IF n > 0 THEN 1 ELSE 0

RECURSIVE GCD(_, _)
GCD(a, b) == IF b = 0 THEN a ELSE GCD(b, a % b)

\* n/d with d > 0 brought to lowest terms
Norm(n, d) ==
    LET g == GCD(Abs(n), d)
    IN  <<(Sgn(n) * Abs(n)) \div g, d \div g>>

Num(k) == <<k, 1>>
IsNaN(x) == x = NaN
IsFinite(x) == x[2] > 0
FSgn(x) == Sgn(x[1])

FMul(x, y) ==
    IF IsNaN(x) \/ IsNaN(y) THEN NaN
    ELSE IF IsFinite(x) /\ IsFinite(y) THEN Norm(x[1] * y[1], x[2] * y[2])
    ELSE <<FSgn(x) * FSgn(y), 0>>          \* inf * 0 = NaN, inf * y = +-inf

FAdd(x, y) ==
    IF IsNaN(x) \/ IsNaN(y) THEN NaN
    ELSE IF IsFinite(x) /\ IsFinite(y)
         THEN Norm(x[1] * y[2] + y[1] * x[2], x[2] * y[2])
    ELSE IF IsFinite(x) THEN y
    ELSE IF IsFinite(y) THEN x
    ELSE IF x = y THEN x ELSE NaN          \* inf + (-inf) = NaN

FNeg(x) == <<-x[1], x[2]>>
FSub(x, y) == FAdd(x, FNeg(y))

FDiv(x, y) ==
    IF IsNaN(x) \/ IsNaN(y) THEN NaN
    ELSE IF IsFinite(x) /\ IsFinite(y)
         THEN IF y[1] = 0 THEN <<FSgn(x), 0>>     \* 0/0 = NaN, x/0 = +-inf
              ELSE Norm(Sgn(y[1]) * x[1] * y[2], x[2] * Abs(y[1]))
    ELSE IF IsFinite(y) THEN <<FSgn(x) * (IF FSgn(y) < 0 THEN -1 ELSE 1), 0>>
    ELSE IF IsFinite(x) THEN Num(0)
    ELSE NaN                                       \* inf / inf

\* np.log: ln(n/d) of a positive finite n/d other than 1 is kept symbolic, as
\* the triple <<n, d, "ln">>
FLog(x) ==
    IF IsNaN(x) THEN NaN
    ELSE IF x = PosInf THEN PosInf
    ELSE IF FSgn(x) < 0 THEN NaN
    ELSE IF FSgn(x) = 0 THEN NegInf
    ELSE IF x = Num(1) THEN Num(0)
    ELSE <<x[1], x[2], "ln">>

----------------------------------------------------------------------------
\* Tables and Series

Columns == {"Close", "Dividends", "Stock Splits", "Adj Close"}
PriceCols == {"Close", "Dividends", "Stock Splits"}

\* the values a provider column may hold
ColVals(c) ==
    CASE c = "Close"        -> {Num(1), Num(2)}
      [] c = "Dividends"    -> {Num(0), Num(1)}
      [] c = "Stock Splits" -> {Num(0), Num(1), Num(2)}
      [] c = "Adj Close"    -> {Num(0), Num(3)}

AllVals == UNION {ColVals(c) : c \in Columns}

\* the column sets a provider table comes with: the usual one, the one with
\* a precomputed Adj Close, and two malformed ones
ColumnSets ==
    {PriceCols, Columns, {"Dividends", "Stock Splits"}, {"Close", "Dividends"}}

LenBound(cols) == IF "Adj Close" \in cols THEN MaxAdjLen ELSE MaxLen

RowVals(cols) == {r \in [cols -> AllVals] : \A c \in cols : r[c] \in ColVals(c)}

Dated(r, i) == [c \in DOMAIN r \cup {"Date"} |-> IF c = "Date" THEN i ELSE r[c]]

\* the table of the given columns whose i-th row is rs[i], dated i
Table(cols, rs) == [cols |-> cols, rows |-> [i \in 1..Len(rs) |-> Dated(rs[i], i)]]

\* provider holds one of the provider's tables
IsProviderTable(t) ==
    \E cols \in ColumnSets : \E n \in 0..LenBound(cols) :
        \E rs \in [1..n -> RowVals(cols)] : t = Table(cols, rs)

EmptyTable(cols) == [cols |-> cols, rows |-> <<>>]

\* DataFrame.empty
IsEmpty(t) == Len(t.rows) = 0

\* DataFrame[c]: the column as a Series
Column(t, c) == [i \in 1..Len(t.rows) |-> [date |-> t.rows[i]["Date"], val |-> t.rows[i][c]]]

\* Reversed with the slice step forgotten: the Series as it is
ReversedNot(s) == s

\* Series.iloc[::-1]
Reversed(s) == [i \in 1..Len(s) |-> s[Len(s) + 1 - i]]

\* Replace with no value replaced
ReplaceNothing(s, a, b) == s

\* Series.replace(a, b)
Replace(s, a, b) ==
    [i \in 1..Len(s) |-> [date |-> s[i].date, val |-> IF s[i].val = a THEN b ELSE s[i].val]]

\* Series.cumprod() and Series.cumsum(): positional running product and sum
RECURSIVE CumProd(_)
CumProd(s) ==
    IF Len(s) <= 1 THEN s
    ELSE LET p == CumProd(SubSeq(s, 1, Len(s) - 1))
         IN  Append(p, [date |-> s[Len(s)].date,
                        val  |-> FMul(p[Len(p)].val, s[Len(s)].val)])

RECURSIVE CumSum(_)
CumSum(s) ==
    IF Len(s) <= 1 THEN s
    ELSE LET p == CumSum(SubSeq(s, 1, Len(s) - 1))
         IN  Append(p, [date |-> s[Len(s)].date,
                        val  |-> FAdd(p[Len(p)].val, s[Len(s)].val)])

\* the value a Series holds at a date label (NaN when the label is absent)
At(s, d) ==
    IF \E i \in 1..Len(s) : s[i].date = d
    THEN s[CHOOSE i \in 1..Len(s) : s[i].date = d].val
    ELSE NaN

\* s /= t and s -= t: label-aligned arithmetic, in the index order of s
SeriesDiv(s, t) ==
    [i \in 1..Len(s) |-> [date |-> s[i].date, val |-> FDiv(s[i].val, At(t, s[i].date))]]

SeriesSub(s, t) ==
    [i \in 1..Len(s) |-> [date |-> s[i].date, val |-> FSub(s[i].val, At(t, s[i].date))]]

\* Series.shift(1): every value moves one position down, the first is NaN
Shift(s) ==
    [i \in 1..Len(s) |-> [date |-> s[i].date,
                          val  |-> IF i = 1 THEN NaN ELSE s[i - 1].val]]

\* Series.dropna()
RECURSIVE DropNa(_)
DropNa(s) ==
    IF Len(s) = 0 THEN s
    ELSE LET p == DropNa(SubSeq(s, 1, Len(s) - 1))
         IN  IF IsNaN(s[Len(s)].val) THEN p ELSE Append(p, s[Len(s)])

----------------------------------------------------------------------------
\* Exceptions and call results

\* an optional value, as a set of at most one element: Python's None is the
\* empty set
None == {}
Some(x) == {x}
Get(o) == CHOOSE x \in o : TRUE

Symbols == {"MSFT"}
Periods == {"1mo"}
Intervals == {"1d"}
ReturnTypes == {"simple", "log", "weekly"}

HTTPError(msg) == [type |-> "HTTPError", msg |-> msg]
KeyError(key) == [type |-> "KeyError", msg |-> [text |-> key]]
ValueError(text) == [type |-> "ValueError", msg |-> [text |-> text]]
ProviderError == [type |-> "ProviderError", msg |-> [text |-> "provider failure"]]

NoDataMsg(sym) == [text |-> "No data found for symbol", symbol |-> sym]
FailedMsg(sym, e) ==
    [text |-> "Failed to fetch data for symbol", symbol |-> sym, error |-> e.msg]

MissingText == "Adjusted close prices not calculated. Please call get_historical_data first."
InvalidText == "Invalid return type. Choose 'simple' or 'log'."

Returned(v) == [status |-> "returned", val |-> v]
Raised(e) == [status |-> "raised", val |-> e]

----------------------------------------------------------------------------
\* YFinanceService

\* calculate_adjusted_close without the Adj Close shortcut of its first two
\* lines: always computed from Close, Stock Splits and Dividends
calculate_adjusted_close_computed(d) ==
    IF "Close" \notin d.cols THEN Raised(KeyError("Close"))
    ELSE IF "Stock Splits" \notin d.cols THEN Raised(KeyError("Stock Splits"))
    ELSE IF "Dividends" \notin d.cols THEN Raised(KeyError("Dividends"))
    ELSE
        LET close == Column(d, "Close")
            adjustment_factor ==
                Reversed(CumProd(Reversed(
                    Replace(Column(d, "Stock Splits"), Num(0), Num(1)))))
            divided == SeriesDiv(close, adjustment_factor)
        IN  Returned(SeriesSub(divided, CumSum(Column(d, "Dividends"))))

\* calculate_adjusted_close on the table d: the Series it returns, or the
\* KeyError of the first column it fails to find
calculate_adjusted_close(d) ==
    IF "Adj Close" \in d.cols THEN Returned(Column(d, "Adj Close"))
    ELSE IF "Close" \notin d.cols THEN Raised(KeyError("Close"))
    ELSE IF "Stock Splits" \notin d.cols THEN Raised(KeyError("Stock Splits"))
    ELSE IF "Dividends" \notin d.cols THEN Raised(KeyError("Dividends"))
    ELSE
        LET close == Column(d, "Close")
            adjustment_factor ==
                Reversed(CumProd(Reversed(
                    Replace(Column(d, "Stock Splits"), Num(0), Num(1)))))
            divided == SeriesDiv(close, adjustment_factor)
        IN  Returned(SeriesSub(divided, CumSum(Column(d, "Dividends"))))

\* what self._ticker.history(period, interval) may produce while the provider
\* holds table t: the table, an empty table, or a provider error
History(t, period, interval) ==
    {Returned(t), Returned(EmptyTable(t.cols)), Raised(ProviderError)}

\* get_historical_data: the fields of self and the call's result after the
\* provider answered resp
get_historical_data(sym, data0, adjusted0, resp) ==
    IF resp.status = "raised"
    THEN [data |-> data0, adjusted_close |-> adjusted0,
          ret |-> Raised(HTTPError(FailedMsg(sym, resp.val)))]
    ELSE IF IsEmpty(resp.val)
    THEN [data |-> Some(resp.val), adjusted_close |-> adjusted0,
          ret |-> Raised(HTTPError(FailedMsg(sym, HTTPError(NoDataMsg(sym)))))]
    ELSE LET adj == calculate_adjusted_close(resp.val)
         IN  IF adj.status = "raised"
             THEN [data |-> Some(resp.val), adjusted_close |-> adjusted0,
                   ret |-> Raised(HTTPError(FailedMsg(sym, adj.val)))]
             ELSE [data |-> Some(resp.val), adjusted_close |-> Some(adj.val),
                   ret |-> Returned(adj.val)]

\* pct_change relative to the current value instead of the previous one
PctChangeOfCurrent(s) ==
    [i \in 1..Len(s) |->
        [date |-> s[i].date,
         val  |-> FSub(Num(1), FDiv(Shift(s)[i].val, s[i].val))]]

\* Series.pct_change(): s / s.shift(1) - 1
PctChange(s) ==
    [i \in 1..Len(s) |->
        [date |-> s[i].date, val |-> FSub(FDiv(s[i].val, Shift(s)[i].val), Num(1))]]

\* np.log(s / s.shift(1))
LogReturn(s) ==
    [i \in 1..Len(s) |->
        [date |-> s[i].date, val |-> FLog(FDiv(s[i].val, Shift(s)[i].val))]]

\* calculate_returns taking every return type but "log" for "simple"
calculate_returns_lenient(adjusted0, return_type) ==
    IF adjusted0 = None THEN Raised(ValueError(MissingText))
    ELSE IF return_type = "log" THEN Returned(DropNa(LogReturn(Get(adjusted0))))
    ELSE Returned(DropNa(PctChange(Get(adjusted0))))

\* calculate_returns: the call's result (the fields of self are not assigned)
calculate_returns(adjusted0, return_type) ==
    IF adjusted0 = None THEN Raised(ValueError(MissingText))
    ELSE IF return_type = "simple" THEN Returned(DropNa(PctChange(Get(adjusted0))))
    ELSE IF return_type = "log" THEN Returned(DropNa(LogReturn(Get(adjusted0))))
    ELSE Raised(ValueError(InvalidText))

----------------------------------------------------------------------------
\* State

VARIABLES
    provider,        \* the table the market-data provider holds for the symbol
    symbol,          \* self._symbol (None while no service is constructed)
    data,            \* self.data
    adjusted_close,  \* self.adjusted_close
    ret,             \* how the last call on the service ended: [op, status, val]
    arg,             \* the return_type of the last calculate_returns call
    answer,          \* what self._ticker.history did in the last call on the
                     \* service: "table", "empty", "raised", or "none" when
                     \* that call did not ask the provider
    fetched,         \* some get_historical_data call has returned
    pc,              \* position of the __main__ script ("imported": not run)
    dotenv_path,     \* what find_dotenv() finds
    key,             \* env_manager.key
    alpha_key,       \* the script's alpha_key
    fed_key,         \* the script's fed_key
    exit_code        \* the exit status of the script

service == <<symbol, data, adjusted_close, ret, arg, answer, fetched>>
script == <<pc, dotenv_path, key, alpha_key, fed_key, exit_code>>
vars == <<provider, symbol, data, adjusted_close, ret, arg, answer, fetched,
          pc, dotenv_path, key, alpha_key, fed_key, exit_code>>

NoCall == [op |-> "none", status |-> "none", val |-> <<>>]
Call(op, r) == [op |-> op, status |-> r.status, val |-> r.val]

\* __init__ starting self.adjusted_close as an empty Series instead of None
NewServiceEmptySeries(sym) ==
    [symbol |-> Some(sym), data |-> None, adjusted_close |-> Some(<<>>)]

\* YFinanceService.__init__
NewService(sym) ==
    [symbol |-> Some(sym), data |-> None, adjusted_close |-> None]

\* the module imported: a service constructed for some symbol, the script
\* under __main__ not run
Init ==
    /\ IsProviderTable(provider)
    /\ \E sym \in Symbols :
         /\ symbol = NewService(sym).symbol
         /\ data = NewService(sym).data
         /\ adjusted_close = NewService(sym).adjusted_close
    /\ ret = NoCall
    /\ arg = None
    /\ answer = "none"
    /\ fetched = FALSE
    /\ pc = "imported"
    /\ dotenv_path = None
    /\ key = None
    /\ alpha_key = None
    /\ fed_key = None
    /\ exit_code = None

AnswerKind(resp) ==
    IF resp.status = "raised" THEN "raised"
    ELSE IF IsEmpty(resp.val) THEN "empty" ELSE "table"

\* a call of get_historical_data on the service
Fetch(period, interval) ==
    \E resp \in History(provider, period, interval) :
        LET r == get_historical_data(Get(symbol), data, adjusted_close, resp)
        IN  /\ data' = r.data
            /\ adjusted_close' = r.adjusted_close
            /\ ret' = Call("get_historical_data", r.ret)
            /\ fetched' = (fetched \/ r.ret.status = "returned")
            /\ arg' = None
            /\ answer' = AnswerKind(resp)

GetHistoricalData(period, interval) ==
    /\ pc = "imported"
    /\ Fetch(period, interval)
    /\ UNCHANGED <<provider, symbol, script>>

CalculateReturns(return_type) ==
    /\ pc = "imported"
    /\ ret' = Call("calculate_returns", calculate_returns(adjusted_close, return_type))
    /\ arg' = Some(return_type)
    /\ answer' = "none"
    /\ UNCHANGED <<provider, symbol, data, adjusted_close, fetched, script>>

Next ==
    \/ \E period \in Periods, interval \in Intervals : GetHistoricalData(period, interval)
    \/ \E return_type \in ReturnTypes : CalculateReturns(return_type)

Spec == Init /\ [][Next]_vars

----------------------------------------------------------------------------
\* The script under __main__

EnvKeys == <<"ALPHA_VANTAGE_API_KEY", "FEDERATION_API_KEY">>

\* os.getenv(key): the value of a key the settings file sets, or None
Getenv(k) == {None, Some("value")}

\* EnvManager._load_dotenv: whether it raises FileNotFoundError
load_dotenv_raises(path) == path = None

MainInit ==
    /\ IsProviderTable(provider)
    /\ symbol = None
    /\ data = None
    /\ adjusted_close = None
    /\ ret = NoCall
    /\ arg = None
    /\ answer = "none"
    /\ fetched = FALSE
    /\ pc = "env_manager"
    /\ dotenv_path \in {None, Some(".env")}
    /\ key = None
    /\ alpha_key = None
    /\ fed_key = None
    /\ exit_code = None

\* env_manager = EnvManager(); FileNotFoundError is caught and ends in exit(1)
NewEnvManager ==
    /\ pc = "env_manager"
    /\ IF load_dotenv_raises(dotenv_path)
       THEN /\ pc' = "exited"
            /\ exit_code' = Some(1)
       ELSE /\ pc' = "validate_alpha"
            /\ UNCHANGED exit_code
    /\ key' = None
    /\ UNCHANGED <<provider, service, dotenv_path, alpha_key, fed_key>>

\* alpha_key = env_manager.validate_env('ALPHA_VANTAGE_API_KEY')
ValidateAlpha ==
    /\ pc = "validate_alpha"
    /\ key' = Some(EnvKeys[1])
    /\ alpha_key' \in Getenv(EnvKeys[1])
    /\ pc' = "validate_fed"
    /\ UNCHANGED <<provider, service, dotenv_path, fed_key, exit_code>>

\* fed_key = env_manager.validate_env('FEDERATION_API_KEY'), and the two prints
ValidateFed ==
    /\ pc = "validate_fed"
    /\ key' = Some(EnvKeys[2])
    /\ fed_key' \in Getenv(EnvKeys[2])
    /\ pc' = "service"
    /\ UNCHANGED <<provider, service, dotenv_path, alpha_key, exit_code>>

\* yfinance_service = YFinanceService(symbol="AAPL")
ConstructService ==
    /\ pc = "service"
    /\ symbol' = NewService("AAPL").symbol
    /\ data' = NewService("AAPL").data
    /\ adjusted_close' = NewService("AAPL").adjusted_close
    /\ pc' = "fetch"
    /\ UNCHANGED <<provider, ret, arg, answer, fetched, dotenv_path, key, alpha_key,
                   fed_key, exit_code>>

\* the HTTPError handler without its exit(1)
exit_status_zero(r) == 0

\* the status the script ends with after get_historical_data ended as r
exit_status(r) == IF r.status = "raised" THEN 1 ELSE 0

\* historical_data = yfinance_service.get_historical_data("5y", "1d"), then
\* the print, or the HTTPError handler and exit(1)
MainFetch ==
    /\ pc = "fetch"
    /\ Fetch("5y", "1d")
    /\ exit_code' = Some(exit_status(ret'))
    /\ pc' = "exited"
    /\ UNCHANGED <<provider, symbol, dotenv_path, key, alpha_key, fed_key>>

MainNext ==
    \/ NewEnvManager
    \/ ValidateAlpha
    \/ ValidateFed
    \/ ConstructService
    \/ MainFetch

MainSpec == MainInit /\ [][MainNext]_vars

----------------------------------------------------------------------------
\* Properties

ValidTypes == {"simple", "log"}

FetchDone == ret.op = "get_historical_data"
ReturnsDone == ret.op = "calculate_returns"

\* the error kinds of the specification, read off the exception a call raised
IsNoDataFound(e, sym) ==
    /\ e.type = "HTTPError"
    /\ e.msg.text = "No data found for symbol"
    /\ e.msg.symbol = sym
IsDataFetchFailed(e) ==
    /\ e.type = "HTTPError"
    /\ e.msg.text = "Failed to fetch data for symbol"
IsAdjustedCloseMissing(e) == e.type = "ValueError" /\ e.msg.text = MissingText
IsInvalidReturnType(e) == e.type = "ValueError" /\ e.msg.text = InvalidText

\* the provider answered the last call with its (non-empty) table, which has
\* the three price columns and no Adj Close column
ComputedFrom ==
    /\ FetchDone
    /\ answer = "table"
    /\ provider.cols = PriceCols

Rows == provider.rows
NRows == Len(provider.rows)

\* a stock-split value with the 0 sentinel read as ratio 1
Ratio(x) == IF x = Num(0) THEN Num(1) ELSE x

\* product of the split ratios of the rows i..n, and sum of the dividends of
\* the rows 1..i
RECURSIVE SplitProduct(_, _)
SplitProduct(i, n) ==
    IF i > n THEN Num(1)
    ELSE FMul(Ratio(Rows[i]["Stock Splits"]), SplitProduct(i + 1, n))

RECURSIVE DividendSum(_)
DividendSum(i) ==
    IF i = 0 THEN Num(0) ELSE FAdd(DividendSum(i - 1), Rows[i]["Dividends"])

NoDividends == \A i \in 1..NRows : Rows[i]["Dividends"] = Num(0)
NoSplits == \A i \in 1..NRows : Rows[i]["Stock Splits"] \in {Num(0), Num(1)}

\* the only split of the provider's table is a 2-for-1 split in row d
SingleSplitAt(d) ==
    /\ d \in 1..NRows
    /\ Rows[d]["Stock Splits"] = Num(2)
    /\ \A i \in 1..NRows : i # d => Rows[i]["Stock Splits"] \in {Num(0), Num(1)}

\* the last call returned a Series with one entry per row of the provider's
\* table, in its date order, holding Expected(i) at row i
ReturnedPerRow(Expected(_)) ==
    /\ ret.status = "returned"
    /\ Len(ret.val) = NRows
    /\ \A i \in 1..NRows :
         /\ ret.val[i].date = Rows[i]["Date"]
         /\ ret.val[i].val = Expected(i)

\* C1: when the provider returns an empty table, get_historical_data raises
\* the NoDataFound error naming the symbol, and not a DataFetchFailed error
C1_EmptyRaisesNoDataFound ==
    (FetchDone /\ answer = "empty") =>
        /\ ret.status = "raised"
        /\ IsNoDataFound(ret.val, Get(symbol))
        /\ ~IsDataFetchFailed(ret.val)

\* C2: with no dividends and a single 2-for-1 split on date d, the adjusted
\* close is Close/2 before d and Close on d and after d
C2_SingleSplit ==
    \A d \in 1..MaxLen :
        (ComputedFrom /\ NoDividends /\ SingleSplitAt(d)) =>
            LET Expected(i) ==
                    IF i < d THEN FDiv(Rows[i]["Close"], Num(2)) ELSE Rows[i]["Close"]
            IN  ReturnedPerRow(Expected)

\* C3: while no get_historical_data call has returned, every calculate_returns
\* call raises AdjustedCloseMissing
C3_ReturnsBeforeFetch ==
    (ReturnsDone /\ ~fetched) =>
        /\ ret.status = "raised"
        /\ IsAdjustedCloseMissing(ret.val)

\* a calculate_returns call raised after get_historical_data calls failed on an
\* empty table or on a table without a Close column
C3_Witness ==
    /\ ReturnsDone
    /\ ~fetched
    /\ data # None
    /\ ret.status = "raised"

\* C4: the script asks the provider only after it validated both keys; it ends
\* with status 1 exactly when the settings file was not found (and then it
\* never fetched) or the fetch raised, and with status 0 otherwise
C4_ExitCode ==
    /\ answer # "none" => (dotenv_path # None /\ key = Some(EnvKeys[2]))
    /\ dotenv_path = None => ~FetchDone
    /\ pc = "exited" =>
         /\ exit_code \in {Some(0), Some(1)}
         /\ exit_code = Some(1) <=> (dotenv_path = None \/ ret.status = "raised")
         /\ exit_code = Some(0) => (FetchDone /\ ret.status = "returned")

\* the script ended with status 0 although both keys are absent
C4_Witness ==
    /\ pc = "exited"
    /\ exit_code = Some(0)
    /\ alpha_key = None
    /\ fed_key = None

\* C5: after a get_historical_data call returned, a calculate_returns call with
\* a return type other than the two valid ones raises InvalidReturnType and
\* leaves self.data and self.adjusted_close as they were
C5_InvalidReturnType ==
    [][(fetched /\ ret'.op = "calculate_returns" /\ Get(arg') \notin ValidTypes) =>
            /\ ret'.status = "raised"
            /\ IsInvalidReturnType(ret'.val)
            /\ data' = data
            /\ adjusted_close' = adjusted_close]_vars

C5_Witness ==
    /\ ReturnsDone
    /\ fetched
    /\ arg = Some("weekly")
    /\ ret.status = "raised"
    /\ adjusted_close # None

\* C6: when the provider's non-empty table has an Adj Close column,
\* get_historical_data returns that column, value by value and date by date,
\* and stores it in self.adjusted_close
C6_AdjCloseVerbatim ==
    (FetchDone /\ answer = "table" /\ "Adj Close" \in provider.cols) =>
        LET Expected(i) == Rows[i]["Adj Close"]
        IN  /\ ReturnedPerRow(Expected)
            /\ adjusted_close = Some(ret.val)

\* a two-row Adj Close column was returned that differs from the Close column
C6_Witness ==
    /\ FetchDone
    /\ answer = "table"
    /\ "Adj Close" \in provider.cols
    /\ NRows = 2
    /\ Rows[1]["Adj Close"] # Rows[2]["Adj Close"]
    /\ Rows[2]["Dividends"] # Num(0)
    /\ Rows[1]["Stock Splits"] = Num(2)
    /\ ret.status = "returned"

\* C7: with no dividends and no splits (every split value 0 or 1), the
\* adjusted close equals Close at every date
C7_NoEvents ==
    (ComputedFrom /\ NoDividends /\ NoSplits) =>
        LET Expected(i) == Rows[i]["Close"]
        IN  ReturnedPerRow(Expected)

\* three rows, with both the 0 sentinel and ratio 1 among the split values
C7_Witness ==
    /\ ComputedFrom
    /\ NoDividends
    /\ NoSplits
    /\ NRows = 3
    /\ Rows[1]["Stock Splits"] = Num(0)
    /\ Rows[2]["Stock Splits"] = Num(1)
    /\ Rows[1]["Close"] # Rows[2]["Close"]
    /\ ret.status = "returned"

\* the stored adjusted close, and the simple return of its k+1-st date
Adjusted == Get(adjusted_close)
SimpleReturn(k) ==
    FDiv(FSub(Adjusted[k + 1].val, Adjusted[k].val), Adjusted[k].val)
SimpleDone == ReturnsDone /\ arg = Some("simple") /\ adjusted_close # None

\* both the value at the k+1-st date and the one before it are zero
BothZero(k) == Adjusted[k].val = Num(0) /\ Adjusted[k + 1].val = Num(0)

\* C8, as claimed: calculate_returns("simple") returns n-1 entries, one for each
\* date but the first, the entry at date d being (adj[d] - adj[d-1]) / adj[d-1]
C8_SimpleReturnsAllDates ==
    SimpleDone =>
        /\ ret.status = "returned"
        /\ Len(ret.val) = Len(Adjusted) - 1
        /\ \A k \in 1..(Len(Adjusted) - 1) :
             /\ ret.val[k].date = Adjusted[k + 1].date
             /\ ret.val[k].val = SimpleReturn(k)

\* C8, amended: calculate_returns("simple") returns, in date order, one entry
\* for each date but the first and but those where the value and the value
\* before it are both zero; the entry at date d is (adj[d] - adj[d-1]) / adj[d-1]
C8_SimpleReturnsDefinedDates ==
    SimpleDone =>
        LET kept == {k \in 1..(Len(Adjusted) - 1) : ~BothZero(k)}
        IN  /\ ret.status = "returned"
            /\ Len(ret.val) = Cardinality(kept)
            /\ \A j \in 1..(Len(ret.val) - 1) : ret.val[j].date < ret.val[j + 1].date
            /\ \A k \in kept :
                 \E j \in 1..Len(ret.val) :
                     /\ ret.val[j].date = Adjusted[k + 1].date
                     /\ ret.val[j].val = SimpleReturn(k)

\* three adjusted values, a zero and a negative one among them, two returns
C8_Witness ==
    /\ SimpleDone
    /\ Len(Adjusted) = 3
    /\ Adjusted[2].val = Num(0)
    /\ Adjusted[3].val = Num(-1)
    /\ ret.status = "returned"
    /\ Len(ret.val) = 2

\* C9: the adjusted close at date d is close[d] divided by the product of the
\* split ratios (0 read as 1) of the dates d..last, minus the sum of the
\* dividends of the dates first..d; one value per row, in date order
C9_AdjustedCloseFormula ==
    ComputedFrom =>
        LET Expected(i) ==
                FSub(FDiv(Rows[i]["Close"], SplitProduct(i, NRows)), DividendSum(i))
        IN  ReturnedPerRow(Expected)

\* three rows with a split in the middle and dividends before and after it
C9_Witness ==
    /\ ComputedFrom
    /\ NRows = 3
    /\ Rows[2]["Stock Splits"] = Num(2)
    /\ Rows[1]["Dividends"] = Num(1)
    /\ Rows[3]["Dividends"] = Num(1)
    /\ ret.status = "returned"

\* C10: whenever self.adjusted_close is set, it is the adjusted close of the
\* table in self.data
C10_AdjustedMatchesData ==
    adjusted_close # None =>
        /\ data # None
        /\ LET r == calculate_adjusted_close(Get(data))
           IN  /\ r.status = "returned"
               /\ r.val = Get(adjusted_close)

====
